---- MODULE Spec2Model ----
(***************************************************************************)
(* A model of the asciitosvg diagram parser: NewCanvas (line splitting,    *)
(* UTF-8 validation, tab expansion, grid construction) followed by         *)
(* findObjects (path pass, text pass, final sort).                         *)
(*                                                                         *)
(* Bytes and runes are short strings.  The two-byte rune U+00E9 is the     *)
(* byte pair <<"C3", "A9">>; "FF" is a byte that is never valid UTF-8.     *)
(* A point is a record [X, Y, Hint]; the grid is the flat array of the     *)
(* source, kept as a sequence indexed from 1 (cell (x, y) is element       *)
(* y * size.X + x + 1).                                                    *)
(***************************************************************************)
EXTENDS Integers, Sequences, FiniteSets, TLC

VARIABLES
    scene,      \* ghost: what the input was drawn from (see Scenes)
    data,       \* NewCanvas argument: the input bytes
    tabWidth,   \* NewCanvas argument
    pc,         \* position in NewCanvas / findObjects
    lines,      \* bytes.Split(data, "\n"); lines[i] is replaced by its expansion
    li,         \* index i of the line loop of NewCanvas (0-based, as in the source)
    size,       \* c.size
    grid,       \* c.grid
    visited,    \* c.visited, as the set of flat indices that are true
    objects,    \* c.objects
    options,    \* c.options
    pos,        \* flat index at which the current pass of findObjects resumes
    call,       \* the points scanPath is about to be called with (<<>>: no call pending)
    stack,      \* the activations of scanPath that are in their loop, outermost first
    scanned,    \* the objects the running scan has sealed, in the order it returns them
    err,        \* the error NewCanvas returns, or the value a panic carries
    found,      \* ghost: the objects in the order the two passes appended them
    query,      \* the point of the latest call of Canvas.EnclosingObjects
    enclosed    \* what that call returned: the indices, in objects, of the objects

vars == <<scene, data, tabWidth, pc, lines, li, size, grid, visited, objects, options, pos,
          call, stack, scanned, err, found, query, enclosed>>

\* what only calls on the returned canvas change
callVars == <<query, enclosed>>

----------------------------------------------------------------------------
(* Bounds of the model. *)

\* longest byte string of the exhaustive input family
MaxBytes == 4
\* largest tab width tried with the exhaustive input family
MaxTabWidth == 3
\* largest side of a drawn rectangle, in cells beyond the first
MaxSide == 3
\* longest word, and widest gap between two words, of the text-row family
MaxWord == 2
MaxGap == 4
\* most short paths between the two ends of a comb
MaxSegments == 5
\* most dashes on either side of the mark of an arrow line
MaxDashes == 2
\* width of the exhaustive family of one-row grids with rounded corners
RoundCols == 3
\* width of the exhaustive family of two-row grids
GridCols == 2
\* most "]" that follow an abandoned tag in a text run
MaxClose == 3
\* most rows of a grid that is one vertical line
MaxColumn == 4

----------------------------------------------------------------------------
(* Small helpers on sequences. *)

Last(s) == s[Len(s)]

Front(s) == SubSeq(s, 1, Len(s) - 1)

Max(a, b) == IF a > b THEN a ELSE b

RECURSIVE Repeat(_, _)
Repeat(x, n) == IF n <= 0 THEN <<>> ELSE <<x>> \o Repeat(x, n - 1)

RECURSIVE Concat(_)
Concat(ss) == IF ss = <<>> THEN <<>> ELSE Head(ss) \o Concat(Tail(ss))

\* all sequences over S of length exactly n, and of length at most n
RECURSIVE SeqsOfLen(_, _)
SeqsOfLen(S, n) ==
    IF n = 0 THEN {<<>>}
    ELSE {<<x>> \o s : x \in S, s \in SeqsOfLen(S, n - 1)}

SeqsUpTo(S, n) == UNION {SeqsOfLen(S, k) : k \in 0..n}

----------------------------------------------------------------------------
(* char.go: the character classifier.  unicode.IsLetter, IsNumber,         *)
(* IsSymbol, IsPrint and IsSpace are given by their values on the runes    *)
(* the model's inputs use.                                                 *)

Letters == {"a", "b", "H", "i", "v", "x", "o", "U+00E9"}
Digits == {"1", "2"}
\* Unicode category S among the model's runes
Symbols == {"+", "|", "=", "<", ">", "^"}
\* Unicode category P among the model's runes
Punctuation == {"-", ".", "'", "/", "\\", ":", "[", "]", "{", "}", "\"", ","}
TAB == "\t"
LF == "\n"

isObjectStartTag(c) == c = "["

isObjectEndTag(c) == c = "]"

isTagDefinitionSeparator(c) == c = ":"

isTextStart(c) == isObjectStartTag(c) \/ c \in Letters \/ c \in Digits \/ c \in Symbols

isTextCont(c) == c \in Letters \cup Digits \cup Symbols \cup Punctuation \cup {" "}

isSpace(c) == c \in {" ", TAB, LF}

isCorner(c) == c \in {".", "'", "+"}

isRoundedCorner(c) == c \in {".", "'"}

isTick(c) == c = "x"

isDot(c) == c = "o"

isDashedHorizontal(c) == c = "="

isHorizontal(c) == isDashedHorizontal(c) \/ isTick(c) \/ isDot(c) \/ c = "-"

isDashedVertical(c) == c = ":"

isVertical(c) == isDashedVertical(c) \/ isTick(c) \/ isDot(c) \/ c = "|"

isDashed(c) == isDashedHorizontal(c) \/ isDashedVertical(c)

isArrowHorizontalLeft(c) == c = "<"

isArrowHorizontal(c) == isArrowHorizontalLeft(c) \/ c = ">"

isArrowVerticalUp(c) == c = "^"

isArrowVertical(c) == isArrowVerticalUp(c) \/ c = "v"

isArrow(c) == isArrowHorizontal(c) \/ isArrowVertical(c)

isDiagonalNorthEast(c) == c = "/"

isDiagonalSouthEast(c) == c = "\\"

isDiagonal(c) == isDiagonalNorthEast(c) \/ isDiagonalSouthEast(c)

isPathStart(c) ==
    /\ \/ isCorner(c) \/ isHorizontal(c) \/ isVertical(c)
       \/ isArrowHorizontalLeft(c) \/ isArrowVerticalUp(c) \/ isDiagonal(c)
    /\ ~isTick(c)
    /\ ~isDot(c)

canDiagonalFrom(c, from) ==
    IF isArrowVertical(from) \/ isCorner(from) THEN isDiagonal(c)
    ELSE IF isDiagonal(from)
         THEN isDiagonal(c) \/ isCorner(c) \/ isArrowVertical(c) \/ isHorizontal(c) \/ isVertical(c)
    ELSE IF isHorizontal(from) \/ isVertical(from) THEN isDiagonal(c)
    ELSE FALSE

canHorizontal(c) == isHorizontal(c) \/ isCorner(c) \/ isArrowHorizontal(c)

canVertical(c) == isVertical(c) \/ isCorner(c) \/ isArrowVertical(c)

----------------------------------------------------------------------------
(* unicode/utf8 on the model's bytes. *)

\* the rune at the head of b and its length in bytes; utf8.RuneError with
\* length 0 for the empty slice, with length 1 for an invalid encoding
RuneError == "RuneError"

DecodeRune(b) ==
    IF b = <<>> THEN [r |-> RuneError, l |-> 0]
    ELSE IF b[1] = "C3"
         THEN IF Len(b) >= 2 /\ b[2] = "A9" THEN [r |-> "U+00E9", l |-> 2]
              ELSE [r |-> RuneError, l |-> 1]
    ELSE IF b[1] \in {"A9", "FF"} THEN [r |-> RuneError, l |-> 1]
    ELSE [r |-> b[1], l |-> 1]

EncodeRune(r) == IF r = "U+00E9" THEN <<"C3", "A9">> ELSE <<r>>

RECURSIVE Valid(_)
Valid(b) ==
    IF b = <<>> THEN TRUE
    ELSE LET d == DecodeRune(b)
         IN  d.r # RuneError /\ Valid(SubSeq(b, d.l + 1, Len(b)))

\* the runes of a byte slice, read as NewCanvas reads a line into the grid
RECURSIVE Runes(_)
Runes(b) ==
    IF b = <<>> THEN <<>>
    ELSE LET d == DecodeRune(b)
         IN  <<d.r>> \o Runes(SubSeq(b, Max(d.l, 1) + 1, Len(b)))

RuneCount(b) == Len(Runes(b))

\* bytes.Split(b, sep) for a one-byte separator: always at least one piece
RECURSIVE Split(_, _)
Split(b, sep) ==
    IF \A k \in 1..Len(b) : b[k] # sep THEN <<b>>
    ELSE LET k == CHOOSE k \in 1..Len(b) : b[k] = sep /\ \A j \in 1..(k - 1) : b[j] # sep
         IN  <<SubSeq(b, 1, k - 1)>> \o Split(SubSeq(b, k + 1, Len(b)), sep)

----------------------------------------------------------------------------
(* expandTabs.  The loop runs once per BYTE of the line (k), tests that     *)
(* byte for a tab, and decodes at byte offset pos; the number of spaces is *)
(* computed from pos, the offset in the INPUT.  A zero tabWidth makes      *)
(* pos % tabWidth a division by zero, which panics; so does the slice      *)
(* line[pos:] once pos has run past the end of the line.                   *)
(* Result: [status |-> "ok" | "error" | "panic", out |-> bytes, cols |->   *)
(* for each byte of the line that was expanded as a tab, the pair          *)
(* <<rune column at which the tab lands in out, number of spaces>>].       *)

tabSpaces(tw, bytePos) == tw - (bytePos % tw)

RECURSIVE expandTabsLoop(_, _, _, _, _, _, _)
expandTabsLoop(line, tw, k, bytePos, index, out, cols) ==
    IF k > Len(line) THEN [status |-> "ok", out |-> out, cols |-> cols]
    ELSE IF line[k] = TAB
    THEN IF tw = 0 THEN [status |-> "panic", out |-> out, cols |-> cols]
         ELSE expandTabsLoop(line, tw, k + 1, bytePos + 1,
                             index + tabSpaces(tw, bytePos),
                             out \o Repeat(" ", tabSpaces(tw, bytePos)),
                             Append(cols, <<index, tabSpaces(tw, bytePos)>>))
    ELSE IF bytePos > Len(line) THEN [status |-> "panic", out |-> out, cols |-> cols]
    ELSE IF DecodeRune(SubSeq(line, bytePos + 1, Len(line))).r = RuneError
         THEN [status |-> "error", out |-> out, cols |-> cols]
    ELSE expandTabsLoop(line, tw, k + 1,
                        bytePos + DecodeRune(SubSeq(line, bytePos + 1, Len(line))).l,
                        index + 1,
                        out \o EncodeRune(DecodeRune(SubSeq(line, bytePos + 1, Len(line))).r),
                        cols)

expandTabs(line, tw) == expandTabsLoop(line, tw, 1, 0, 0, <<>>, <<>>)

----------------------------------------------------------------------------
(* point.go *)

Point(x, y) == [X |-> x, Y |-> y, Hint |-> "None"]

XY(p) == <<p.X, p.Y>>

\* isHorizontal(p1, p2) and isVertical(p1, p2) of point.go (the names without
\* "point" are taken by the character predicates of char.go)
pointIsHorizontal(p1, p2) == p1.X - p2.X <= 1 /\ p1.X - p2.X >= -1 /\ p1.Y = p2.Y

pointIsVertical(p1, p2) == p1.Y - p2.Y <= 1 /\ p1.Y - p2.Y >= -1 /\ p1.X = p2.X

isDiagonalSE(p1, p2) == p1.X - p2.X = -1 /\ p1.Y - p2.Y = -1

isDiagonalSW(p1, p2) == p1.X - p2.X = 1 /\ p1.Y - p2.Y = -1

isDiagonalNW(p1, p2) == p1.X - p2.X = 1 /\ p1.Y - p2.Y = 1

isDiagonalNE(p1, p2) == p1.X - p2.X = -1 /\ p1.Y - p2.Y = 1

----------------------------------------------------------------------------
(* object.go: pointsToCorners *)

\* the direction the if-chain of pointsToCorners assigns to a step, or
\* "dirNone" where the chain ends in panic("discontiguous points")
stepDir(p1, p2) ==
    IF pointIsHorizontal(p1, p2) THEN "dirH"
    ELSE IF pointIsVertical(p1, p2) THEN "dirV"
    ELSE IF isDiagonalSE(p1, p2) THEN "dirSE"
    ELSE IF isDiagonalSW(p1, p2) THEN "dirSW"
    ELSE IF isDiagonalNW(p1, p2) THEN "dirNW"
    ELSE IF isDiagonalNE(p1, p2) THEN "dirNE"
    ELSE "dirNone"

\* the loop "for i := 2; i < l; i++" (i is 1-based here: the step into points[i])
RECURSIVE cornerWalk(_, _, _, _)
cornerWalk(points, i, dir, out) ==
    IF dir = "dirNone" \/ i > Len(points) THEN [out |-> out, dir |-> dir]
    ELSE IF dir # stepDir(points[i - 1], points[i])
         THEN cornerWalk(points, i + 1, stepDir(points[i - 1], points[i]),
                         Append(out, points[i - 1]))
    ELSE cornerWalk(points, i + 1, dir, out)

\* the direction closedFunc is called with, or "dirNone" for the final else
closingDir(first, last) ==
    IF pointIsHorizontal(first, last) THEN "dirH"
    ELSE IF pointIsVertical(first, last) THEN "dirV"
    ELSE IF isDiagonalNE(last, first) THEN "dirNE"
    ELSE "dirNone"

\* closeCorners without the append of the last point
closeCornersNoTail(points, w) ==
    IF w.dir = "dirNone" THEN [corners |-> <<>>, closed |-> FALSE, panic |-> TRUE]
    ELSE IF closingDir(points[1], Last(points)) # "dirNone"
            /\ w.dir = closingDir(points[1], Last(points))
         THEN [corners |-> w.out, closed |-> TRUE, panic |-> FALSE]
    ELSE [corners |-> w.out, closed |-> FALSE, panic |-> FALSE]

\* the end of pointsToCorners, w being the corners and the direction the
\* loop ended with: closedFunc, or the last point appended
closeCorners(points, w) ==
    IF w.dir = "dirNone" THEN [corners |-> <<>>, closed |-> FALSE, panic |-> TRUE]
    ELSE IF closingDir(points[1], Last(points)) # "dirNone"
            /\ w.dir = closingDir(points[1], Last(points))
         THEN [corners |-> w.out, closed |-> TRUE, panic |-> FALSE]
    ELSE [corners |-> Append(w.out, Last(points)), closed |-> FALSE, panic |-> FALSE]

\* [corners, closed, panic]
pointsToCorners(points) ==
    IF Len(points) < 3 THEN [corners |-> points, closed |-> FALSE, panic |-> FALSE]
    ELSE closeCorners(points,
             cornerWalk(points, 3, stepDir(points[1], points[2]), <<points[1]>>))

----------------------------------------------------------------------------
(* canvas: grid access *)

idx(p) == p.Y * size.X + p.X

at(p) == grid[idx(p) + 1]

isVisited(vis, p) == idx(p) \in vis

canLeft(p) == p.X > 0

canRight(p) == p.X < size.X - 1

canUp(p) == p.Y > 0

canDown(p) == p.Y < size.Y - 1

canDiagonal(p) == (canLeft(p) \/ canRight(p)) /\ (canUp(p) \/ canDown(p))

PointAt(i) == Point(i % size.X, i \div size.X)

----------------------------------------------------------------------------
(* object.go: seal, HasPoint *)

NoTag == <<>>

\* a seal that knows no ticks
sealedHintNoTick(points, i, isText, corners) ==
    LET ch == at(points[i])
        h0 == IF i = Len(points) /\ isArrow(ch) THEN "EndMarker"
              ELSE IF i = 1 /\ isArrow(ch) THEN "StartMarker"
              ELSE points[i].Hint
        h1 == IF isText THEN h0
              ELSE IF isDot(ch) THEN "Dot"
              ELSE h0
    IN  IF ~isText /\ isRoundedCorner(ch)
           /\ \E k \in 1..Len(corners) : XY(corners[k]) = XY(points[i])
        THEN "RoundedCorner"
        ELSE h1

\* sealedHint with RoundedCorner given to every "." and "'" of a path
sealedHintEveryRound(points, i, isText, corners) ==
    LET ch == at(points[i])
        h0 == IF i = Len(points) /\ isArrow(ch) THEN "EndMarker"
              ELSE IF i = 1 /\ isArrow(ch) THEN "StartMarker"
              ELSE points[i].Hint
        h1 == IF isText THEN h0
              ELSE IF isTick(ch) THEN "Tick"
              ELSE IF isDot(ch) THEN "Dot"
              ELSE h0
    IN  IF ~isText /\ isRoundedCorner(ch) THEN "RoundedCorner" ELSE h1

\* the hint of points[i] after seal
sealedHint(points, i, isText, corners) ==
    LET ch == at(points[i])
        h0 == IF i = Len(points) /\ isArrow(ch) THEN "EndMarker"
              ELSE IF i = 1 /\ isArrow(ch) THEN "StartMarker"
              ELSE points[i].Hint
        h1 == IF isText THEN h0
              ELSE IF isTick(ch) THEN "Tick"
              ELSE IF isDot(ch) THEN "Dot"
              ELSE h0
    IN  IF ~isText /\ isRoundedCorner(ch)
           /\ \E k \in 1..Len(corners) : XY(corners[k]) = XY(points[i])
        THEN "RoundedCorner"
        ELSE h1

\* the points as pointsToCorners sees them: only the marker hints are set
markedPoints(points) ==
    [i \in 1..Len(points) |->
        IF i = Len(points) /\ isArrow(at(points[i])) THEN [points[i] EXCEPT !.Hint = "EndMarker"]
        ELSE IF i = 1 /\ isArrow(at(points[i])) THEN [points[i] EXCEPT !.Hint = "StartMarker"]
        ELSE points[i]]

\* the object seal leaves behind, with panic set where pointsToCorners panics
sealed(points, isText, tag, pc0, pts) ==
    [points   |-> pts,
     isText   |-> isText,
     text     |-> [i \in 1..Len(points) |-> at(points[i])],
     \* with fewer than 3 points the corners ARE the points slice
     corners  |-> IF Len(points) < 3 THEN pts ELSE pc0.corners,
     isClosed |-> pc0.closed,
     isDashed |-> ~isText /\ \E i \in 1..Len(points) : isDashed(at(points[i])),
     tag      |-> tag,
     panic    |-> pc0.panic]

\* the points with the hints seal gives them, pc0 being what pointsToCorners returned
sealedPoints(points, isText, pc0) ==
    [i \in 1..Len(points) |->
        [points[i] EXCEPT !.Hint = sealedHint(points, i, isText, pc0.corners)]]

sealWith(points, isText, tag, pc0) ==
    sealed(points, isText, tag, pc0, sealedPoints(points, isText, pc0))

seal(points, isText, tag) ==
    sealWith(points, isText, tag, pointsToCorners(markedPoints(points)))

\* Go's integer division truncates toward zero
GoDiv(a, b) ==
    IF (a >= 0) = (b > 0) THEN (IF a >= 0 THEN a ELSE -a) \div (IF b > 0 THEN b ELSE -b)
    ELSE -((IF a >= 0 THEN a ELSE -a) \div (IF b > 0 THEN b ELSE -b))

\* whether the edge from corner j to corner i toggles hasPoint
hasPointToggle(ci, cj, p) ==
    /\ \/ ci.Y < p.Y /\ cj.Y >= p.Y
       \/ cj.Y < p.Y /\ ci.Y >= p.Y
    /\ ci.X <= p.X \/ cj.X <= p.X
    /\ ci.X + GoDiv(p.Y - ci.Y, cj.Y - ci.Y) * (cj.X - ci.X) < p.X

HasPoint(o, p) ==
    Cardinality({i \in 1..Len(o.corners) :
                    hasPointToggle(o.corners[i],
                                   o.corners[IF i = 1 THEN Len(o.corners) ELSE i - 1], p)}) % 2 = 1

----------------------------------------------------------------------------
(* canvas.next: the unvisited neighbours that continue a path from pos, in *)
(* the order left, right, up, down, NW, NE, SW, SE.                        *)

nextHorizontal(vis, p) == IF ~isVisited(vis, p) /\ canHorizontal(at(p)) THEN <<p>> ELSE <<>>

nextVertical(vis, p) == IF ~isVisited(vis, p) /\ canVertical(at(p)) THEN <<p>> ELSE <<>>

nextDiagonal(vis, from, to) ==
    IF ~isVisited(vis, to) /\ canDiagonalFrom(at(to), at(from)) THEN <<to>> ELSE <<>>

Moved(p, dx, dy) == [p EXCEPT !.X = p.X + dx, !.Y = p.Y + dy]

\* a next that skips a cell: the cell two to the right of p alone
nextSkipping(vis, p) ==
    IF canHorizontal(at(p)) /\ p.X + 2 <= size.X - 1
    THEN nextHorizontal(vis, Moved(p, 2, 0))
    ELSE <<>>

next(vis, p) ==
    (IF canHorizontal(at(p))
     THEN (IF canLeft(p) THEN nextHorizontal(vis, Moved(p, -1, 0)) ELSE <<>>)
          \o (IF canRight(p) THEN nextHorizontal(vis, Moved(p, 1, 0)) ELSE <<>>)
     ELSE <<>>)
    \o
    (IF canVertical(at(p))
     THEN (IF canUp(p) THEN nextVertical(vis, Moved(p, 0, -1)) ELSE <<>>)
          \o (IF canDown(p) THEN nextVertical(vis, Moved(p, 0, 1)) ELSE <<>>)
     ELSE <<>>)
    \o
    (IF canDiagonal(p)
     THEN (IF canUp(p) /\ canLeft(p) THEN nextDiagonal(vis, p, Moved(p, -1, -1)) ELSE <<>>)
          \o (IF canUp(p) /\ canRight(p) THEN nextDiagonal(vis, p, Moved(p, 1, -1)) ELSE <<>>)
          \o (IF canDown(p) /\ canLeft(p) THEN nextDiagonal(vis, p, Moved(p, -1, 1)) ELSE <<>>)
          \o (IF canDown(p) /\ canRight(p) THEN nextDiagonal(vis, p, Moved(p, 1, 1)) ELSE <<>>)
     ELSE <<>>)

----------------------------------------------------------------------------
(* canvas.EnclosingObjects: the indices, in objs, of the objects returned. *)

RECURSIVE enclosingFrom(_, _, _, _, _)
enclosingFrom(objs, p, i, maxX, maxY) ==
    IF i > Len(objs) THEN <<>>
    ELSE IF /\ objs[i].isClosed /\ HasPoint(objs[i], p)
            /\ objs[i].corners[1].X > maxX /\ objs[i].corners[1].Y > maxY
         THEN <<i>> \o enclosingFrom(objs, p, i + 1, objs[i].corners[1].X, objs[i].corners[1].Y)
    ELSE enclosingFrom(objs, p, i + 1, maxX, maxY)

EnclosingObjects(objs, p) == enclosingFrom(objs, p, 1, -1, -1)

----------------------------------------------------------------------------
(* encoding/json.Unmarshal into an interface{}, on the model's runes: a    *)
(* recursive-descent reading of one JSON value with nothing but white      *)
(* space around it.  No literal (true, false, null) and no exponent can be *)
(* spelled with the model's letters.  A position of 0 is a syntax error.   *)

jsonWs(c) == c \in {" ", TAB, LF}

RECURSIVE jsonSkip(_, _)
jsonSkip(s, i) == IF i <= Len(s) /\ jsonWs(s[i]) THEN jsonSkip(s, i + 1) ELSE i

RECURSIVE jsonDigits(_, _)
jsonDigits(s, i) == IF i <= Len(s) /\ s[i] \in Digits THEN jsonDigits(s, i + 1) ELSE i

\* the position after the number starting at i
jsonFraction(s, b, c) == IF c = b + 1 THEN 0 ELSE c

jsonInteger(s, a, b) ==
    IF b = a THEN 0
    ELSE IF b <= Len(s) /\ s[b] = "." THEN jsonFraction(s, b, jsonDigits(s, b + 1))
    ELSE b

jsonUnsigned(s, a) == jsonInteger(s, a, jsonDigits(s, a))

jsonNumber(s, i) == jsonUnsigned(s, IF i <= Len(s) /\ s[i] = "-" THEN i + 1 ELSE i)

\* the position after the string whose opening quote is at j - 1
RECURSIVE jsonStringEnd(_, _)
jsonStringEnd(s, j) ==
    IF j > Len(s) THEN 0
    ELSE IF s[j] = "\"" THEN j + 1
    ELSE IF s[j] = "\\"
         THEN (IF j + 1 <= Len(s) /\ s[j + 1] \in {"\"", "\\", "/", "b"}
               THEN jsonStringEnd(s, j + 2) ELSE 0)
    ELSE IF s[j] \in {TAB, LF} THEN 0
    ELSE jsonStringEnd(s, j + 1)

\* what reading a value gives: the position after it (0: syntax error),
\* whether it is an object, and the keys of the object
JsonRead(n, isObj, keys) == [next |-> n, isObject |-> isObj, keys |-> keys]

JsonError == JsonRead(0, FALSE, {})

RECURSIVE jsonValue(_, _)
RECURSIVE jsonObject(_, _)
RECURSIVE jsonArray(_, _)
RECURSIVE jsonMembers(_, _, _)
RECURSIVE jsonMemberColon(_, _, _, _, _)
RECURSIVE jsonMemberValue(_, _, _)
RECURSIVE jsonMemberEnd(_, _, _)
RECURSIVE jsonElements(_, _)
RECURSIVE jsonElementValue(_, _)
RECURSIVE jsonElementEnd(_, _)

jsonValue(s, i) ==
    IF i > Len(s) THEN JsonError
    ELSE IF s[i] = "{" THEN jsonObject(s, jsonSkip(s, i + 1))
    ELSE IF s[i] = "[" THEN jsonArray(s, jsonSkip(s, i + 1))
    ELSE IF s[i] = "\"" THEN JsonRead(jsonStringEnd(s, i + 1), FALSE, {})
    ELSE JsonRead(jsonNumber(s, i), FALSE, {})

\* an object, j being the position after "{" and the white space behind it
jsonObject(s, j) ==
    IF j <= Len(s) /\ s[j] = "}" THEN JsonRead(j + 1, TRUE, {})
    ELSE jsonMembers(s, j, {})

\* an array, j being the position after "[" and the white space behind it
jsonArray(s, j) ==
    IF j <= Len(s) /\ s[j] = "]" THEN JsonRead(j + 1, FALSE, {})
    ELSE JsonRead(jsonElements(s, j), FALSE, {})

\* the members of an object from the key at i on, up to and including "}"
jsonMembers(s, i, keys) ==
    IF i > Len(s) \/ s[i] # "\"" THEN JsonError
    ELSE jsonMemberColon(s, i, keys, jsonStringEnd(s, i + 1),
                         jsonSkip(s, jsonStringEnd(s, i + 1)))

\* e: the position after the key; c: where its colon must be
jsonMemberColon(s, i, keys, e, c) ==
    IF e = 0 \/ c > Len(s) \/ s[c] # ":" THEN JsonError
    ELSE jsonMemberValue(s, keys \cup {SubSeq(s, i + 1, e - 2)},
                         jsonValue(s, jsonSkip(s, c + 1)))

jsonMemberValue(s, ks, v) ==
    IF v.next = 0 THEN JsonError ELSE jsonMemberEnd(s, ks, jsonSkip(s, v.next))

\* d: the position of what follows the value of a member
jsonMemberEnd(s, ks, d) ==
    IF d > Len(s) THEN JsonError
    ELSE IF s[d] = "}" THEN JsonRead(d + 1, TRUE, ks)
    ELSE IF s[d] = "," THEN jsonMembers(s, jsonSkip(s, d + 1), ks)
    ELSE JsonError

\* the elements of an array from the value at i on, up to and including "]"
jsonElements(s, i) == jsonElementValue(s, jsonValue(s, i))

jsonElementValue(s, v) ==
    IF v.next = 0 THEN 0 ELSE jsonElementEnd(s, jsonSkip(s, v.next))

jsonElementEnd(s, d) ==
    IF d > Len(s) THEN 0
    ELSE IF s[d] = "]" THEN d + 1
    ELSE IF s[d] = "," THEN jsonElements(s, jsonSkip(s, d + 1))
    ELSE 0

\* v: the value read from the first position that is not white space
unmarshalled(def, v) ==
    IF v.next # 0 /\ jsonSkip(def, v.next) > Len(def)
    THEN [err |-> FALSE, isObject |-> v.isObject, keys |-> v.keys]
    ELSE [err |-> TRUE, isObject |-> FALSE, keys |-> {}]

\* [err |-> Unmarshal returned an error, isObject |-> m is a map, keys |-> its keys]
Unmarshal(def) == unmarshalled(def, jsonValue(def, jsonSkip(def, 1)))

----------------------------------------------------------------------------
(* objTagRE = (\d+)\s*,\s*(\d+)$ and strconv.ParseInt on its two groups.   *)

reDigit(c) == c \in Digits

reSpace(c) == c \in {" ", TAB, LF}

RECURSIVE reDigitsEnd(_, _)
reDigitsEnd(t, i) == IF i <= Len(t) /\ reDigit(t[i]) THEN reDigitsEnd(t, i + 1) ELSE i

RECURSIVE reSpacesEnd(_, _)
reSpacesEnd(t, i) == IF i <= Len(t) /\ reSpace(t[i]) THEN reSpacesEnd(t, i + 1) ELSE i

DigitValue(c) == IF c = "1" THEN 1 ELSE 2

RECURSIVE ParseInt(_)
ParseInt(ds) == IF ds = <<>> THEN 0 ELSE 10 * ParseInt(Front(ds)) + DigitValue(Last(ds))

\* the second group and the end: m is where the second group must start
objTagSecond(t, m) == reDigitsEnd(t, m) > m /\ reDigitsEnd(t, m) = Len(t) + 1

\* the comma: k is the position after the spaces behind the first group
objTagComma(t, k) == k <= Len(t) /\ t[k] = "," /\ objTagSecond(t, reSpacesEnd(t, k + 1))

\* whether the expression matches t from position i to the end of t
objTagMatchAt(t, i) ==
    reDigitsEnd(t, i) > i /\ objTagComma(t, reSpacesEnd(t, reDigitsEnd(t, i)))

\* the two groups of the match that starts at i, j being the end of the first
objTagGroups(t, i, j) ==
    [ok |-> TRUE,
     X  |-> ParseInt(SubSeq(t, i, j - 1)),
     Y  |-> ParseInt(SubSeq(t, reSpacesEnd(t, reSpacesEnd(t, j) + 1), Len(t)))]

objTagLeftmost(t, i) == objTagGroups(t, i, reDigitsEnd(t, i))

\* FindStringSubmatch: the leftmost match, as [ok, X, Y]
objTagMatch(t) ==
    IF \A i \in 1..Len(t) : ~objTagMatchAt(t, i) THEN [ok |-> FALSE, X |-> 0, Y |-> 0]
    ELSE objTagLeftmost(t, CHOOSE i \in 1..Len(t) :
                               objTagMatchAt(t, i) /\ \A i2 \in 1..(i - 1) : ~objTagMatchAt(t, i2))

----------------------------------------------------------------------------
(* canvas.scanText *)

\* the for loop; st = [cur, tagged, tag, tagDef, streak, points]
RECURSIVE textLoop(_, _, _)
RECURSIVE textStep(_, _, _, _, _, _)

\* tagged as the head of the loop body leaves it
bumpTagged(start, st) ==
    IF \/ st.cur.X = start.X /\ isObjectStartTag(at(st.cur))
       \/ st.cur.X > start.X /\ isObjectEndTag(at(st.cur))
    THEN st.tagged + 1 ELSE st.tagged

textLoop(vis, start, st) ==
    IF ~canRight(st.cur) THEN st
    ELSE textStep(vis, start, st, bumpTagged(start, st), Moved(st.cur, 1, 0),
                  at(Moved(st.cur, 1, 0)))

\* a scanner without the first break, which runs on through visited cells
textBlockedNoCollision(vis, cur) == ~isTextCont(at(cur))

\* the first two breaks of the loop: "we hit a polygon or a line", or the
\* rune cannot continue a text
textBlocked(vis, cur) == isVisited(vis, cur) \/ ~isTextCont(at(cur))

\* a scanner that stops at the fourth consecutive space only
streakEndsAtFour(streak) == streak > 3

\* "Stop when we see 3 consecutive whitespace points": the test on the
\* streak, already incremented
streakEnds(streak) == streak > 2

\* the rest of the loop body: cur is the cell moved to, ch its rune
textStep(vis, start, st, tagged, cur, ch) ==
    IF textBlocked(vis, cur) THEN [st EXCEPT !.tagged = tagged]
    ELSE IF tagged = 0 /\ isSpace(ch) /\ streakEnds(st.streak + 1)
         THEN [st EXCEPT !.tagged = tagged]
    ELSE textLoop(vis, start,
           [cur    |-> cur,
            tagged |-> IF tagged = 2
                       THEN (IF isTagDefinitionSeparator(ch) THEN 3 ELSE -1)
                       ELSE tagged,
            tag    |-> IF tagged = 1 /\ ~isObjectEndTag(ch)
                       THEN Append(st.tag, ch) ELSE st.tag,
            tagDef |-> IF tagged = 3 THEN Append(st.tagDef, ch) ELSE st.tagDef,
            streak |-> IF tagged = 0 /\ isSpace(ch) THEN st.streak + 1 ELSE 0,
            points |-> Append(st.points, cur)])

\* "Trim the right side of the text object"
RECURSIVE trimRight(_)
trimRight(points) ==
    IF points # <<>> /\ isSpace(at(Last(points))) THEN trimRight(Front(points)) ELSE points

\* objs with the tag of its i-th object set (i = 0: unchanged)
SetTag(objs, i, t) ==
    IF i = 0 THEN objs ELSE [objs EXCEPT ![i] = [@ EXCEPT !.tag = t]]

\* the first object whose first corner is (x, y), or 0
cornerIs(o, x, y) == o.corners[1].X = x /\ o.corners[1].Y = y

firstWithCorner(objs, x, y) ==
    IF \A i \in 1..Len(objs) : ~cornerIs(objs[i], x, y) THEN 0
    ELSE CHOOSE i \in 1..Len(objs) :
             cornerIs(objs[i], x, y) /\ \A i2 \in 1..(i - 1) : ~cornerIs(objs[i2], x, y)

\* [obj, objs, opts, panic]: the text object, c.objects and c.options as
\* scanText leaves them, and whether it panicked (on the JSON)
TextResult(obj, objs, opts, panic) ==
    [obj |-> obj, objs |-> objs, opts |-> opts, panic |-> panic]

\* tagged = 2: the tag goes to the first of the enclosing objects, if any
tagContainer(objs, container, t) ==
    IF container # <<>> THEN SetTag(objs, container[1], t) ELSE objs

\* tagged = 3: the tag goes to the object the reference m names, if any
tagTarget(objs, m, t) ==
    IF m.ok THEN SetTag(objs, firstWithCorner(objs, m.X, m.Y), t) ELSE objs

\* tagged = 3: u is what json.Unmarshal made of the definition
tagDefinition(objs, opts, st, u) ==
    IF u.err \/ ~u.isObject
    THEN TextResult(seal(trimRight(st.points), TRUE, st.tag), objs, opts, TRUE)
    ELSE TextResult(seal(trimRight(st.points), TRUE, st.tag),
                    tagTarget(objs, objTagMatch(st.tag), st.tag),
                    [t \in DOMAIN opts \cup {st.tag} |->
                        IF t = st.tag THEN u.keys ELSE opts[t]],
                    FALSE)

\* scanText from the end of its loop on, st being the state the loop left
scanTextEnd(objs, opts, start, st) ==
    IF st.tagged = 2
    THEN TextResult(seal(trimRight(st.points), TRUE, st.tag),
                    tagContainer(objs, EnclosingObjects(objs, start), st.tag), opts, FALSE)
    ELSE IF st.tagged = 3 THEN tagDefinition(objs, opts, st, Unmarshal(st.tagDef))
    ELSE TextResult(seal(trimRight(st.points), TRUE, NoTag), objs, opts, FALSE)

scanText(vis, objs, opts, start) ==
    scanTextEnd(objs, opts, start,
                textLoop(vis, start,
                         [cur |-> start, tagged |-> 0, tag |-> <<>>, tagDef |-> <<>>,
                          streak |-> 0, points |-> <<start>>]))

----------------------------------------------------------------------------
(* objects.Less, and sort.Sort.  What sort.Sort does with elements of     *)
(* equal rank depends on the Go release the program is built with ("the    *)
(* sort is not guaranteed to be stable").  For up to 12 elements releases  *)
(* 1.19 and later run an insertion sort, releases before 1.19 first make   *)
(* one Shell pass with gap 6 (if Less(i, i-6) then Swap(i, i-6)) and then  *)
(* the insertion sort; the model takes either.  For longer lists it takes  *)
(* any order the contract of sort.Sort allows.                             *)

\* an ordering that puts the text objects first
LessTextFirst(l, r) ==
    IF l.isText # r.isText THEN l.isText
    ELSE IF l.points[1].Y # r.points[1].Y THEN l.points[1].Y < r.points[1].Y
    ELSE l.points[1].X < r.points[1].X

Less(l, r) ==
    IF l.isText # r.isText THEN r.isText
    ELSE IF l.points[1].Y # r.points[1].Y THEN l.points[1].Y < r.points[1].Y
    ELSE l.points[1].X < r.points[1].X

\* the orders of the elements of objs with indices in rest that sort.Sort may leave
RECURSIVE sortedOrders(_, _)
sortedOrders(objs, rest) ==
    IF rest = {} THEN {<<>>}
    ELSE UNION {{<<objs[i]>> \o s : s \in sortedOrders(objs, rest \ {i})} :
                   i \in {i \in rest : \A j \in rest : ~Less(objs[j], objs[i])}}

Swap(s, i, j) == [s EXCEPT ![i] = s[j], ![j] = s[i]]

\* the inner loop of the insertion sort: s[j] sinks while it is Less than
\* the element before it
RECURSIVE sinkFrom(_, _)
sinkFrom(s, j) ==
    IF j > 1 /\ Less(s[j], s[j - 1]) THEN sinkFrom(Swap(s, j, j - 1), j - 1) ELSE s

RECURSIVE insertionSortFrom(_, _)
insertionSortFrom(s, i) ==
    IF i > Len(s) THEN s ELSE insertionSortFrom(sinkFrom(s, i), i + 1)

insertionSort(s) == insertionSortFrom(s, 2)

\* the Shell pass with gap 6 from position i on
RECURSIVE shellPassFrom(_, _)
shellPassFrom(s, i) ==
    IF i > Len(s) THEN s
    ELSE shellPassFrom(IF Less(s[i], s[i - 6]) THEN Swap(s, i, i - 6) ELSE s, i + 1)

shellPass(s) == shellPassFrom(s, 7)

SortOutcomes(objs) ==
    IF Len(objs) <= 12
    THEN {insertionSort(objs), insertionSort(shellPass(objs))}
    ELSE sortedOrders(objs, 1..Len(objs))

\* sort.Stable, for comparison: among the minimal elements the earliest
RECURSIVE stableOrder(_, _)
stableOrder(objs, rest) ==
    IF rest = {} THEN <<>>
    ELSE LET i == CHOOSE i \in rest :
                     /\ \A j \in rest : ~Less(objs[j], objs[i])
                     /\ \A j \in rest : (\A k \in rest : ~Less(objs[k], objs[j])) => i <= j
         IN  <<objs[i]>> \o stableOrder(objs, rest \ {i})

StableSort(objs) == stableOrder(objs, 1..Len(objs))

----------------------------------------------------------------------------
(* The inputs.  An exhaustive family of short byte strings under every     *)
(* small tab width, and families of diagrams (rows of runes joined by      *)
(* newlines) parsed with the tab width the tests use.                      *)

TestTabWidth == 9

ByteAlphabet == {LF, TAB, "a", "C3", "A9"}

\* strings.Join(rows, "\n") as bytes
RECURSIVE JoinRows(_)
JoinRows(rows) ==
    IF rows = <<>> THEN <<>>
    ELSE IF Len(rows) = 1 THEN Concat([i \in 1..Len(rows[1]) |-> EncodeRune(rows[1][i])])
    ELSE JoinRows(<<rows[1]>>) \o <<LF>> \o JoinRows(Tail(rows))

\* a rectilinear outline given by its vertices V (in order, closed back to
\* the first), drawn on a w x h canvas: "+" at the vertices, "-" and "|" between
onSegment(a, b, x, y) ==
    \/ a[2] = b[2] /\ y = a[2] /\ x >= (IF a[1] < b[1] THEN a[1] ELSE b[1])
                               /\ x <= Max(a[1], b[1])
    \/ a[1] = b[1] /\ x = a[1] /\ y >= (IF a[2] < b[2] THEN a[2] ELSE b[2])
                               /\ y <= Max(a[2], b[2])

succIdx(V, k) == IF k = Len(V) THEN 1 ELSE k + 1

outlineChar(V, x, y) ==
    IF \E k \in 1..Len(V) : V[k] = <<x, y>> THEN "+"
    ELSE IF \E k \in 1..Len(V) : V[k][2] = V[succIdx(V, k)][2] /\ onSegment(V[k], V[succIdx(V, k)], x, y)
         THEN "-"
    ELSE IF \E k \in 1..Len(V) : V[k][1] = V[succIdx(V, k)][1] /\ onSegment(V[k], V[succIdx(V, k)], x, y)
         THEN "|"
    ELSE " "

DrawOutline(V, w, h) ==
    [y \in 1..h |-> [x \in 1..w |-> outlineChar(V, x - 1, y - 1)]]

\* V moved by (dx, dy)
Shifted(V, dx, dy) == [k \in 1..Len(V) |-> <<V[k][1] + dx, V[k][2] + dy>>]

\* rectangles with sides of 1..MaxSide cells beyond the corner, at offsets 0..1
RectVertices(x0, y0, w, h) == <<<<x0, y0>>, <<x0 + w, y0>>, <<x0 + w, y0 + h>>, <<x0, y0 + h>>>>

\* concave outlines, clockwise from the top-most, then left-most vertex;
\* a and b are the lengths of the short edges
HatVertices(a, b) ==
    <<<<a, 0>>, <<2 * a, 0>>, <<2 * a, b>>, <<3 * a, b>>, <<3 * a, 2 * b>>,
      <<0, 2 * b>>, <<0, b>>, <<a, b>>>>

BumpRightVertices(a, b) ==
    <<<<0, 0>>, <<a, 0>>, <<a, b>>, <<2 * a, b>>, <<2 * a, 2 * b>>, <<a, 2 * b>>,
      <<a, 3 * b>>, <<0, 3 * b>>>>

BumpLeftVertices(a, b) ==
    <<<<a, 0>>, <<2 * a, 0>>, <<2 * a, 3 * b>>, <<a, 3 * b>>, <<a, 2 * b>>,
      <<0, 2 * b>>, <<0, b>>, <<a, b>>>>

EllVertices(a, b) ==
    <<<<0, 0>>, <<a, 0>>, <<a, b>>, <<2 * a, b>>, <<2 * a, 2 * b>>, <<0, 2 * b>>>>

Outlines ==
    {RectVertices(x0, y0, w, h) : x0 \in 0..1, y0 \in 0..1, w \in 1..MaxSide, h \in 1..MaxSide}
    \cup {Shifted(HatVertices(a, b), d, d) : a \in 2..MaxSide, b \in 2..MaxSide, d \in 0..1}
    \cup {BumpRightVertices(a, b) : a \in 2..MaxSide, b \in 2..MaxSide}
    \cup {BumpLeftVertices(a, b) : a \in 2..MaxSide, b \in 2..MaxSide}
    \cup {EllVertices(a, b) : a \in 2..MaxSide, b \in 2..MaxSide}

MaxX(V) == CHOOSE m \in {V[k][1] : k \in 1..Len(V)} : \A k \in 1..Len(V) : V[k][1] <= m

MaxY(V) == CHOOSE m \in {V[k][2] : k \in 1..Len(V)} : \A k \in 1..Len(V) : V[k][2] <= m

OutlineRows(V) == DrawOutline(V, MaxX(V) + 1, MaxY(V) + 1)

\* a box of three rows (four with pad = 1: an empty interior row first)
\* whose last interior row holds the given letters from wall to wall
BoxTextRows(letters, pad) ==
    LET k == Len(letters)
        edge == <<"+">> \o Repeat("-", k) \o <<"+">>
    IN  <<edge>>
        \o (IF pad = 1 THEN <<(<<"|">> \o Repeat(" ", k) \o <<"|">>)>> ELSE <<>>)
        \o <<(<<"|">> \o letters \o <<"|">>), edge>>

BoxLetters == {"a", "o", "v"}

\* one row: lead spaces, a word, gap spaces, a word
TextRow(lead, w1, gap, w2) == <<Repeat(" ", lead) \o w1 \o Repeat(" ", gap) \o w2>>

WordLetters == {"a", "o"}

Words == SeqsUpTo(WordLetters, MaxWord) \ {<<>>}

\* one row: the tag definition "[a]:" followed by a body
TagDefRow(body) == <<(<<"[", "a", "]", ":">> \o body)>>

BodyAlphabet == {"{", "}", " ", "1"}

\* a horizontal line of l + 1 + r cells with a "+" from which a vertical
\* line of d cells hangs: open paths that share their first cell
TeeRows(l, r, d) ==
    <<(Repeat("-", l) \o <<"+">> \o Repeat("-", r))>>
    \o [k \in 1..d |-> Repeat(" ", l) \o <<"|">> \o Repeat(" ", r)]

\* a row of n + 2 short paths, the first and the last with a vertical line
\* hanging from their "+"; the first vertical line is two cells long
CombRows(n) ==
    <<(<<"+", "-">> \o Concat([k \in 1..n |-> <<" ", "-", "-">>]) \o <<" ", "+", "-">>),
      (<<"|">> \o Repeat(" ", 3 * n + 2) \o <<"|", " ">>),
      (<<"|">> \o Repeat(" ", 3 * n + 4))>>

\* two arrow lines with a blank row between them: a line that ends in ">"
\* and a line that begins with "<", each with a1 (a2) dashes before and
\* b1 (b2) dashes after a mark m1 (m2): <<"x">>, <<"o">> or nothing
ArrowLine(a, m, b) == Repeat("-", a) \o m \o Repeat("-", b)

ArrowRows(lead, l1, l2) ==
    <<(Repeat(" ", lead) \o l1 \o <<">">>), <<>>, (Repeat(" ", lead) \o <<"<">> \o l2)>>

Marks == {<<>>, <<"x">>, <<"o">>}

ArrowLines == {ArrowLine(a, m, b) : a \in 1..MaxDashes, m \in Marks, b \in 1..MaxDashes}

\* a box (rounded or not) whose interior row is the reference "[a]" and sp
\* spaces, a blank row, and the definition "[a]: " with a JSON body
TagBoxRows(round, sp, body) ==
    <<(<<(IF round THEN "." ELSE "+")>> \o Repeat("-", 3 + sp) \o <<(IF round THEN "." ELSE "+")>>),
      (<<"|", "[", "a", "]">> \o Repeat(" ", sp) \o <<"|">>),
      (<<(IF round THEN "'" ELSE "+")>> \o Repeat("-", 3 + sp) \o <<(IF round THEN "'" ELSE "+")>>),
      <<>>,
      (<<"[", "a", "]", ":", " ">> \o body)>>

\* JSON objects for the body of a definition
TagBodies == {<<"{", "}">>, <<"{", "\"", "a", "\"", ":", "1", "}">>}

\* the definition "[1,1]: {}" (ws spaces behind the comma) that targets the
\* object whose first corner is (1, 1), below or above a shape put there:
\* a box, two open paths that share their first cell, or a letter
TargetDefRow(ws) == <<"[", "1", ",">> \o Repeat(" ", ws) \o <<"1", "]", ":", " ", "{", "}">>

TargetShapeRows(shape) ==
    CASE shape = "box" -> <<<<>>, <<" ", "+", "-", "+">>, <<" ", "|", " ", "|">>,
                            <<" ", "+", "-", "+">>, <<>>>>
      [] shape = "tee" -> <<<<>>, <<" ", "+", "-">>, <<" ", "|">>, <<>>>>
      [] shape = "text" -> <<<<>>, <<" ", "a">>>>

TargetRows(shape, ws, above) ==
    IF above THEN <<TargetDefRow(ws)>> \o Tail(TargetShapeRows(shape))
    ELSE TargetShapeRows(shape) \o <<TargetDefRow(ws)>>

\* a concave outline whose first vertex (a, 0) lies to the right of its
\* lower part, which is h rows high below the notch of b rows
JVertices(a, b, h) ==
    <<<<a, 0>>, <<2 * a, 0>>, <<2 * a, b + h>>, <<0, b + h>>, <<0, b>>, <<a, b>>>>

\* outlines drawn over each other, the first of Vs that has a cell winning
RECURSIVE outlinesChar(_, _, _)
outlinesChar(Vs, x, y) ==
    IF Vs = <<>> THEN " "
    ELSE IF outlineChar(Head(Vs), x, y) # " " THEN outlineChar(Head(Vs), x, y)
    ELSE outlinesChar(Tail(Vs), x, y)

NestRows(Vs) ==
    [y \in 1..(MaxY(Vs[1]) + 1) |-> [x \in 1..(MaxX(Vs[1]) + 1) |-> outlinesChar(Vs, x - 1, y - 1)]]

\* nested outlines, outermost first: a box in a box, a box in the lower
\* part of a concave outline (a blank row below the notch), and three
\* boxes in each other
Nests ==
    {<<RectVertices(0, 0, w, h), RectVertices(ix, iy, 2, 2)>> :
        w \in 4..(MaxSide + 1), h \in 4..(MaxSide + 1), ix \in 1..(MaxSide - 1), iy \in 1..(MaxSide - 1)}
    \cup {<<JVertices(a, 2, 5), RectVertices(ix, 4, 2, 2)>> : a \in 2..MaxSide, ix \in 1..(MaxSide - 1)}
    \cup {<<RectVertices(0, 0, 6, 6), RectVertices(1, 1, 4, 4), RectVertices(2, 2, 2, 2)>>}

\* rows with the label "[a]" written on row y from column x on
LabelledRows(rows, x, y) ==
    [rows EXCEPT ![y + 1] = [@ EXCEPT ![x + 1] = "[", ![x + 2] = "a", ![x + 3] = "]"]]

\* a box in a box, the inner one just wide enough for the label "[a]"
LabelNests ==
    {<<RectVertices(0, 0, w, h), RectVertices(ix, iy, 4, 2)>> :
        w \in 6..(MaxSide + 4), h \in 4..(MaxSide + 2), ix \in 1..MaxSide, iy \in 1..MaxSide}

\* every grid of two rows of GridCols cells over the path characters
GridAlphabet == {" ", "+", "-", "|", "/", "x"}

Grids == {<<r1, r2>> : r1 \in SeqsOfLen(GridAlphabet, GridCols),
                       r2 \in SeqsOfLen(GridAlphabet, GridCols)}

\* three rows in which a path leaves the corner (1, 0) along one diagonal
\* and comes back to the left wall along the other
KnotRows(d, e1, e2) == <<<<"+", "+", " ">>, <<"+", "/", d>>, <<"|", e1, e2>>>>

Knots == {KnotRows(d, e1, e2) : d \in {"/", "\\"}, e1 \in {"+", "-"}, e2 \in {"+", "-"}}

\* a grid one cell wide: a vertical line of n cells
ColumnRows(n) == [y \in 1..n |-> <<"|">>]

\* an outline whose left side is a "/" diagonal h rows high: the top edge
\* starts h cells to the right of the bottom-left corner
SlantRows(h) ==
    <<(Repeat(" ", h) \o <<"+", "-", "+">>)>>
    \o [k \in 1..(h - 1) |-> Repeat(" ", h - k) \o <<"/">> \o Repeat(" ", k + 1) \o <<"|">>]
    \o <<(<<"+">> \o Repeat("-", h + 1) \o <<"+">>)>>

\* one row of lines, rounded corners, ticks and letters
RoundAlphabet == {"-", ".", "'", "a", "x"}

Rounds == {<<r>> : r \in SeqsOfLen(RoundAlphabet, RoundCols)}

\* one row that begins with "[": a bracket with g spaces before a letter;
\* the reference "[a]" with a letter and n more "]" behind it, up to a
\* line; the definition "[a]:" with a JSON body that holds a "]"
TagRuns ==
    {<<(<<"[">> \o Repeat(" ", g) \o <<"a">>)>> : g \in 1..MaxGap}
    \cup {<<(<<"[", "a", "]", "b">> \o Repeat("]", n) \o <<"-", "-">>)>> : n \in 0..MaxClose}
    \cup {<<(<<"[", "a", "]", ":">> \o b)>> :
             b \in {<<"{", "}">>, <<"{", "\"", "a", "\"", ":", "[", "]", "}">>,
                    <<"{", "\"", "]", "\"", ":", "1", "}">>}}

\* the scenes: what each input of the model was drawn from
Scenes ==
    {[kind |-> "bytes", bytes |-> b, tw |-> w] : b \in SeqsUpTo(ByteAlphabet, MaxBytes),
                                                 w \in 0..MaxTabWidth}
    \cup {[kind |-> "outline", V |-> V] : V \in Outlines}
    \cup {[kind |-> "boxtext", letters |-> s, pad |-> p] :
             s \in SeqsUpTo(BoxLetters, MaxWord) \ {<<>>}, p \in 0..1}
    \cup {[kind |-> "textrow", lead |-> l, w1 |-> w1, gap |-> g, w2 |-> w2] :
             l \in 0..1, w1 \in Words, g \in 1..MaxGap, w2 \in Words}
    \cup {[kind |-> "tagdef", body |-> b] : b \in SeqsUpTo(BodyAlphabet, MaxWord + 1)}
    \cup {[kind |-> "tee", l |-> l, r |-> r, d |-> d] : l \in 0..2, r \in 1..2, d \in 1..2}
    \cup {[kind |-> "comb", n |-> n] : n \in 3..MaxSegments}
    \cup {[kind |-> "tagbox", round |-> r, sp |-> sp, body |-> b] :
             r \in BOOLEAN, sp \in 0..MaxWord, b \in TagBodies}
    \cup {[kind |-> "target", shape |-> sh, ws |-> ws, above |-> ab] :
             sh \in {"box", "tee", "text"}, ws \in 0..1, ab \in BOOLEAN}
    \cup {[kind |-> "nested", Vs |-> Vs] :
             Vs \in {N \in Nests : \A k \in 2..Len(N) :
                         MaxX(N[k]) < MaxX(N[1]) /\ MaxY(N[k]) < MaxY(N[1])}}
    \cup {[kind |-> "nestlabel", Vs |-> Vs] :
             Vs \in {N \in LabelNests : MaxX(N[2]) < MaxX(N[1]) /\ MaxY(N[2]) < MaxY(N[1])}}
    \cup {[kind |-> "grid", rows |-> g] : g \in Grids}
    \cup {[kind |-> "knot", rows |-> g] : g \in Knots}
    \cup {[kind |-> "column", n |-> n] : n \in 1..MaxColumn}
    \cup {[kind |-> "tagrun", rows |-> g] : g \in TagRuns}
    \cup {[kind |-> "round", rows |-> g] : g \in Rounds}
    \cup {[kind |-> "slant", h |-> h] : h \in 1..MaxSide}
    \cup {[kind |-> "arrows", lead |-> l, l1 |-> l1, l2 |-> l2] :
             l \in 0..1, l1 \in ArrowLines, l2 \in ArrowLines}

SceneRows(s) ==
    CASE s.kind = "outline" -> OutlineRows(s.V)
      [] s.kind = "boxtext" -> BoxTextRows(s.letters, s.pad)
      [] s.kind = "textrow" -> TextRow(s.lead, s.w1, s.gap, s.w2)
      [] s.kind = "tagdef" -> TagDefRow(s.body)
      [] s.kind = "tee" -> TeeRows(s.l, s.r, s.d)
      [] s.kind = "comb" -> CombRows(s.n)
      [] s.kind = "tagbox" -> TagBoxRows(s.round, s.sp, s.body)
      [] s.kind = "target" -> TargetRows(s.shape, s.ws, s.above)
      [] s.kind = "nested" -> NestRows(s.Vs)
      [] s.kind = "nestlabel" ->
             LabelledRows(NestRows(s.Vs), s.Vs[2][1][1] + 1, s.Vs[2][1][2] + 1)
      [] s.kind = "grid" -> s.rows
      [] s.kind = "knot" -> s.rows
      [] s.kind = "column" -> ColumnRows(s.n)
      [] s.kind = "tagrun" -> s.rows
      [] s.kind = "round" -> s.rows
      [] s.kind = "slant" -> SlantRows(s.h)
      [] s.kind = "arrows" -> ArrowRows(s.lead, s.l1, s.l2)

SceneData(s) == IF s.kind = "bytes" THEN s.bytes ELSE JoinRows(SceneRows(s))

SceneTabWidth(s) == IF s.kind = "bytes" THEN s.tw ELSE TestTabWidth

----------------------------------------------------------------------------
(* NewCanvas *)

ClosedOptionsTag == <<"__a2s__closed__options__">>

\* an options map made empty
NoOptions == [t \in {} |-> {}]

\* c.options as the composite literal of NewCanvas makes it: for each tag
\* the set of its keys

InitialOptions == [t \in {ClosedOptionsTag} |-> {<<"fill">>, <<"filter">>}]

NoError == [kind |-> "nil", line |-> -1]

\* no call of EnclosingObjects yet
NoPoint == Point(-1, -1)

\* the state once NewCanvas has made c, split the lines and set c.size.Y
Init ==
    /\ scene \in Scenes
    /\ data = SceneData(scene)
    /\ tabWidth = SceneTabWidth(scene)
    /\ pc = "lines"
    /\ lines = Split(data, LF)
    /\ li = 0
    /\ size = [X |-> 0, Y |-> Len(lines)]
    /\ grid = <<>>
    /\ visited = {}
    /\ objects = <<>>
    /\ options = InitialOptions
    /\ pos = 0
    /\ call = <<>>
    /\ stack = <<>>
    /\ scanned = <<>>
    /\ err = NoError
    /\ query = NoPoint
    /\ enclosed = <<>>
    /\ found = <<>>

\* the line number the error for line i (0-based loop index) is made with
utf8ErrorLine(i) == i

\* one turn of the loop over the lines: the line is not valid UTF-8
LineInvalid ==
    /\ UNCHANGED callVars
    /\ pc = "lines" /\ li < Len(lines)
    /\ ~Valid(lines[li + 1])
    /\ pc' = "error"
    /\ err' = [kind |-> "invalid UTF-8 encoding", line |-> utf8ErrorLine(li)]
    /\ UNCHANGED <<call, stack, scanned, scene, data, tabWidth, lines, li, size, grid, visited, objects, options, pos, found>>

\* ... expandTabs returns an error
LineExpandError ==
    /\ UNCHANGED callVars
    /\ pc = "lines" /\ li < Len(lines)
    /\ Valid(lines[li + 1])
    /\ expandTabs(lines[li + 1], tabWidth).status = "error"
    /\ pc' = "error"
    /\ err' = [kind |-> "invalid rune", line |-> -1]
    /\ UNCHANGED <<call, stack, scanned, scene, data, tabWidth, lines, li, size, grid, visited, objects, options, pos, found>>

\* ... expandTabs panics
LineExpandPanic ==
    /\ UNCHANGED callVars
    /\ pc = "lines" /\ li < Len(lines)
    /\ Valid(lines[li + 1])
    /\ expandTabs(lines[li + 1], tabWidth).status = "panic"
    /\ pc' = "panic"
    /\ err' = [kind |-> "runtime error in expandTabs", line |-> -1]
    /\ UNCHANGED <<call, stack, scanned, scene, data, tabWidth, lines, li, size, grid, visited, objects, options, pos, found>>

\* ... the line is expanded and measured
LineExpanded ==
    /\ UNCHANGED callVars
    /\ pc = "lines" /\ li < Len(lines)
    /\ Valid(lines[li + 1])
    /\ \E e \in {expandTabs(lines[li + 1], tabWidth)} :
           /\ e.status = "ok"
           /\ lines' = [lines EXCEPT ![li + 1] = e.out]
           /\ size' = [size EXCEPT !.X = Max(size.X, RuneCount(e.out))]
    /\ li' = li + 1
    /\ UNCHANGED <<call, stack, scanned, scene, data, tabWidth, pc, grid, visited, objects, options, pos, err, found>>

\* the runes of a line, padded with spaces to the width w
paddedRow(line, w) == Runes(line) \o Repeat(" ", w - RuneCount(line))

\* the grid and the visited bitmap are made and filled
BuildGrid ==
    /\ UNCHANGED callVars
    /\ pc = "lines" /\ li = Len(lines)
    /\ grid' = Concat([y \in 1..size.Y |-> paddedRow(lines[y], size.X)])
    /\ visited' = {}
    /\ pos' = 0
    /\ pc' = "paths"
    /\ UNCHANGED <<call, stack, scanned, scene, data, tabWidth, lines, li, size, objects, options, err, found>>

----------------------------------------------------------------------------
(* findObjects *)

Cells == 0..(size.X * size.Y - 1)

objectCells(objs) ==
    UNION {{idx(objs[k].points[i]) : i \in 1..Len(objs[k].points)} : k \in 1..Len(objs)}

\* the first cell at or after pos that is not visited and satisfies start, or -1
startsAt(isPathPass, i) ==
    /\ i >= pos
    /\ i \notin visited
    /\ IF isPathPass THEN isPathStart(grid[i + 1]) ELSE isTextStart(grid[i + 1])

firstUnvisited(isPathPass) ==
    IF \A i \in Cells : ~startsAt(isPathPass, i) THEN -1
    ELSE CHOOSE i \in Cells :
             startsAt(isPathPass, i) /\ \A j \in Cells : startsAt(isPathPass, j) => i <= j

\* visit that does not mark the cell
visitNot(vis, p) == vis

\* c.visit(p)
visit(vis, p) == vis \cup {idx(p)}

\* unvisit that leaves the cell visited
unvisitNot(vis, p) == vis

\* c.unvisit(p), called on a visited p
unvisit(vis, p) == vis \ {idx(p)}

\* first pass: the next unvisited path-start cell is visited and scanPath
\* is called with it
PathStart ==
    /\ UNCHANGED callVars
    /\ pc = "paths"
    /\ firstUnvisited(TRUE) # -1
    /\ \E i \in {firstUnvisited(TRUE)} :
           /\ visited' = visit(visited, PointAt(i))
           /\ call' = <<PointAt(i)>>
           /\ pos' = i + 1
    /\ stack' = <<>>
    /\ scanned' = <<>>
    /\ pc' = "scan"
    /\ UNCHANGED <<scene, data, tabWidth, lines, li, size, grid, objects, options, err, found>>

\* an activation of scanPath that has reached its loop over next, k being
\* the element the loop takes up next
Frame(points, nx) == [points |-> points, next |-> nx, k |-> 1]

\* o := &object{points: points}; o.seal(c), and what follows it: the call
\* and the stack this leaves.  A panic of pointsToCorners ends the program.
ScanSealed(o, thenCall, thenStack) ==
    IF o.panic
    THEN /\ pc' = "panic"
         /\ err' = [kind |-> "corners", line |-> -1]
         /\ UNCHANGED <<scanned, call, stack>>
    ELSE /\ scanned' = Append(scanned, o)
         /\ call' = thenCall
         /\ stack' = thenStack
         /\ UNCHANGED <<pc, err>>

\* scanPath is entered with the points of call and runs up to its return,
\* its recursive call (a closed path: the activation stays below the call
\* with nothing left to do) or its loop.  next panics on an unvisited cell.
ScanCall ==
    /\ UNCHANGED callVars
    /\ pc = "scan"
    /\ call # <<>>
    /\ IF ~isVisited(visited, Last(call))
       THEN /\ pc' = "panic"
            /\ err' = [kind |-> "next", line |-> -1]
            /\ UNCHANGED <<visited, stack, scanned, call>>
       ELSE \E nx \in {next(visited, Last(call))} :
            IF nx = <<>> /\ Len(call) = 1 /\ ~isVisited(visited, Last(call))
            THEN /\ pc' = "panic"
                 /\ err' = [kind |-> "unvisit", line |-> -1]
                 /\ UNCHANGED <<visited, stack, scanned, call>>
            ELSE IF nx = <<>> /\ Len(call) = 1
            THEN /\ visited' = unvisit(visited, Last(call))
                 /\ call' = <<>>
                 /\ UNCHANGED <<pc, err, stack, scanned>>
            ELSE IF nx = <<>>
            THEN /\ ScanSealed(seal(call, FALSE, NoTag), <<>>, stack)
                 /\ UNCHANGED visited
            ELSE IF Last(call).X = call[1].X /\ Last(call).Y = call[1].Y + 1
            THEN /\ ScanSealed(seal(call, FALSE, NoTag), <<Last(call)>>,
                               Append(stack, Frame(call, <<>>)))
                 /\ UNCHANGED visited
            ELSE /\ stack' = Append(stack, Frame(call, nx))
                 /\ call' = <<>>
                 /\ UNCHANGED <<pc, err, visited, scanned>>
    /\ UNCHANGED <<scene, data, tabWidth, lines, li, size, grid, objects, options, pos, found>>

\* one turn of "for _, n := range next" in the innermost activation: a
\* visited n is skipped, another one is visited and scanPath called with
\* the points and n; past the last n the activation returns
ScanLoop ==
    /\ UNCHANGED callVars
    /\ pc = "scan"
    /\ call = <<>>
    /\ stack # <<>>
    /\ \E f \in {Last(stack)} :
           IF f.k > Len(f.next)
           THEN /\ stack' = Front(stack)
                /\ UNCHANGED <<visited, call>>
           ELSE /\ stack' = [stack EXCEPT ![Len(stack)].k = f.k + 1]
                /\ IF isVisited(visited, f.next[f.k])
                   THEN UNCHANGED <<visited, call>>
                   ELSE /\ visited' = visit(visited, f.next[f.k])
                        /\ call' = Append(f.points, f.next[f.k])
    /\ UNCHANGED <<scene, data, tabWidth, pc, lines, li, size, grid, objects, options, pos,
                   scanned, err, found>>

\* the outermost scanPath has returned: the points of the objects it
\* found are visited, the objects appended to c.objects
ScanDone ==
    /\ UNCHANGED callVars
    /\ pc = "scan"
    /\ call = <<>>
    /\ stack = <<>>
    /\ visited' = visited \cup objectCells(scanned)
    /\ objects' = objects \o scanned
    /\ scanned' = <<>>
    /\ pc' = "paths"
    /\ UNCHANGED <<scene, data, tabWidth, lines, li, size, grid, options, pos, call, stack,
                   err, found>>

\* the first pass has reached the end of the grid
PathPassDone ==
    /\ UNCHANGED callVars
    /\ pc = "paths"
    /\ firstUnvisited(TRUE) = -1
    /\ pc' = "texts"
    /\ pos' = 0
    /\ UNCHANGED <<call, stack, scanned, scene, data, tabWidth, lines, li, size, grid, visited, objects, options, err, found>>

\* second pass: the next unvisited text-start cell is scanned
TextStart ==
    /\ UNCHANGED callVars
    /\ pc = "texts"
    /\ firstUnvisited(FALSE) # -1
    /\ \E i \in {firstUnvisited(FALSE)} :
       \E r \in {scanText(visited, objects, options, PointAt(i))} :
           IF r.panic
           THEN /\ pc' = "panic"
                /\ err' = [kind |-> "json", line |-> -1]
                /\ UNCHANGED <<visited, objects, options, pos>>
           ELSE /\ visited' = visited \cup objectCells(<<r.obj>>)
                /\ objects' = Append(r.objs, r.obj)
                /\ options' = r.opts
                /\ pos' = i + 1
                /\ UNCHANGED <<pc, err>>
    /\ UNCHANGED <<call, stack, scanned, scene, data, tabWidth, lines, li, size, grid, found>>

\* the second pass has reached the end of the grid
TextPassDone ==
    /\ UNCHANGED callVars
    /\ pc = "texts"
    /\ firstUnvisited(FALSE) = -1
    /\ pc' = "sort"
    /\ UNCHANGED <<call, stack, scanned, scene, data, tabWidth, lines, li, size, grid, visited, objects, options, pos, err, found>>

\* sort.Sort(c.objects), and NewCanvas returns c
SortObjects ==
    /\ UNCHANGED callVars
    /\ pc = "sort"
    /\ found' = objects
    /\ objects' \in SortOutcomes(objects)
    /\ pc' = "done"
    /\ UNCHANGED <<call, stack, scanned, scene, data, tabWidth, lines, li, size, grid, visited, options, pos, err>>

\* the caller of NewCanvas calls EnclosingObjects(p) on the canvas returned
EnclosingObjectsCall ==
    /\ pc = "done"
    /\ \E i \in Cells :
           /\ query' = PointAt(i)
           /\ enclosed' = EnclosingObjects(objects, PointAt(i))
    /\ UNCHANGED <<scene, data, tabWidth, pc, lines, li, size, grid, visited, objects, options,
                   pos, call, stack, scanned, err, found>>

Next ==
    \/ LineInvalid
    \/ LineExpandError
    \/ LineExpandPanic
    \/ LineExpanded
    \/ BuildGrid
    \/ PathStart
    \/ ScanCall
    \/ ScanLoop
    \/ ScanDone
    \/ PathPassDone
    \/ TextStart
    \/ TextPassDone
    \/ SortObjects
    \/ EnclosingObjectsCall

Spec == Init /\ [][Next]_vars

----------------------------------------------------------------------------
(* The properties.                                                         *)

\* NewCanvas has returned (a canvas or an error) or has panicked
Terminal == pc \in {"done", "error", "panic"}

\* the lines of the input, before any of them is expanded
InputLines == Split(data, LF)

cornersXY(o) == [k \in 1..Len(o.corners) |-> XY(o.corners[k])]

pointsXY(o) == [k \in 1..Len(o.points) |-> XY(o.points[k])]

cellsOf(o) == {idx(o.points[k]) : k \in 1..Len(o.points)}

\* C1: a grid holding one isolated rectilinear outline of "+", "-" and "|"
\* gives exactly one object; it is not a text, it is closed, and its corners
\* are the vertices of the outline, clockwise from the top-most, then
\* left-most one.
C1_OutlineIsOneClosedPolygon ==
    (pc = "done" /\ scene.kind = "outline") =>
        /\ Len(objects) = 1
        /\ ~objects[1].isText
        /\ objects[1].isClosed
        /\ cornersXY(objects[1]) = scene.V

\* C2: a closed box whose interior row holds letters from wall to wall gives
\* the polygon followed by one text object whose points are exactly the
\* cells of the letters; and no text object ever holds a cell that a path
\* object owns.
C2_BoxTextIsInterior ==
    /\ (pc = "done" /\ scene.kind = "boxtext") =>
           /\ Len(objects) = 2
           /\ ~objects[1].isText
           /\ objects[1].isClosed
           /\ cornersXY(objects[1]) =
                  RectVertices(0, 0, Len(scene.letters) + 1, 2 + scene.pad)
           /\ objects[2].isText
           /\ pointsXY(objects[2]) =
                  [k \in 1..Len(scene.letters) |-> <<k, 1 + scene.pad>>]
           /\ objects[2].text = scene.letters
    /\ pc = "done" =>
           \A i \in 1..Len(objects) : \A j \in 1..Len(objects) :
               (objects[i].isText /\ ~objects[j].isText)
                   => cellsOf(objects[i]) \cap cellsOf(objects[j]) = {}

C2_Witness ==
    /\ pc = "done" /\ scene.kind = "boxtext" /\ Len(scene.letters) = 2
    /\ Len(objects) = 2 /\ objects[2].isText /\ Len(objects[2].points) = 2

\* C3: on a row of plain text, two words three (or more) spaces apart are
\* two text objects, each holding its word; two words one or two spaces
\* apart are one text object that holds the spaces too.
C3_ThreeSpacesSplit ==
    (pc = "done" /\ scene.kind = "textrow") =>
        IF scene.gap >= 3
        THEN /\ Len(objects) = 2
             /\ objects[1].isText /\ objects[2].isText
             /\ objects[1].text = scene.w1
             /\ objects[2].text = scene.w2
             /\ objects[1].points[1].X = scene.lead
             /\ objects[2].points[1].X = scene.lead + Len(scene.w1) + scene.gap
        ELSE /\ Len(objects) = 1
             /\ objects[1].isText
             /\ objects[1].text = scene.w1 \o Repeat(" ", scene.gap) \o scene.w2
             /\ objects[1].points[1].X = scene.lead

C3_Witness ==
    /\ pc = "done" /\ scene.kind = "textrow" /\ scene.gap = 3
    /\ Len(objects) = 2 /\ objects[1].text = scene.w1 /\ objects[2].text = scene.w2

\* C4: in the list NewCanvas returns, no text object comes before a path
\* object, and of two objects of one kind the earlier one's first point is
\* not after the later one's, rows first, columns second.
C4_ObjectsAreOrdered ==
    pc = "done" =>
        \A i \in 1..Len(objects) : \A j \in 1..Len(objects) :
            i < j =>
                /\ ~(objects[i].isText /\ ~objects[j].isText)
                /\ objects[i].isText = objects[j].isText =>
                       \/ objects[i].points[1].Y < objects[j].points[1].Y
                       \/ /\ objects[i].points[1].Y = objects[j].points[1].Y
                          /\ objects[i].points[1].X <= objects[j].points[1].X

C4_Witness ==
    /\ pc = "done"
    /\ Len(objects) >= 2
    /\ \E i \in 1..Len(objects) : \E j \in 1..Len(objects) :
           i < j /\ ~objects[i].isText /\ objects[j].isText

\* C5: the final sort is stable: objects with the same kind and the same
\* first point are returned in the order in which the passes found them.
C5_SortIsStable == pc = "done" => objects = StableSort(found)

\* C6: when a line of the input is not valid UTF-8, NewCanvas returns an
\* error and no canvas, and the error carries the 1-based number of the
\* (first) offending line.
C6_InvalidUtf8NamesLine ==
    (Terminal /\ \E k \in 1..Len(InputLines) : ~Valid(InputLines[k])) =>
        /\ pc = "error"
        /\ err.kind = "invalid UTF-8 encoding"
        /\ err.line \in 1..Len(InputLines)
        /\ ~Valid(InputLines[err.line])
        /\ \A k \in 1..(err.line - 1) : Valid(InputLines[k])

\* C7: a tag definition whose body is not valid JSON, or is JSON but not
\* an object, ends NewCanvas with a returned error: no panic, no canvas.
C7_BadTagJsonIsReturnedError ==
    (/\ Terminal
     /\ scene.kind = "tagdef"
     /\ Unmarshal(scene.body).err \/ ~Unmarshal(scene.body).isObject)
        => pc = "error"

\* C8, as stated: the empty input gives a canvas of size (0, 0) with no
\* objects and an empty options map.
C8_EmptyInputZeroSized ==
    (pc = "done" /\ data = <<>>) =>
        /\ size = [X |-> 0, Y |-> 0]
        /\ objects = <<>>
        /\ DOMAIN options = {}

\* C8, amended: the empty input gives a canvas of size (0, 1), the one
\* empty line bytes.Split returns, with no objects, and an options map that
\* holds the built-in entry "__a2s__closed__options__" (fill, filter) alone.
C8_EmptyInputOneEmptyRow ==
    (Terminal /\ data = <<>>) =>
        /\ pc = "done"
        /\ size = [X |-> 0, Y |-> 1]
        /\ objects = <<>>
        /\ DOMAIN options = {ClosedOptionsTag}
        /\ options[ClosedOptionsTag] = {<<"fill">>, <<"filter">>}

C8_Witness == pc = "done" /\ data = <<>> /\ grid = <<>> /\ size.Y = 1

\* C9: with tabWidth = 0 an input that holds a tab (and is valid UTF-8) is
\* parsed without error or panic, and every tab takes one column of the
\* grid: each row of the grid is the runes of its line, tabs included.
C9_ZeroTabWidthPassesTabs ==
    (/\ Terminal
     /\ tabWidth = 0
     /\ \E k \in 1..Len(data) : data[k] = TAB
     /\ \A k \in 1..Len(InputLines) : Valid(InputLines[k]))
        => /\ pc = "done"
           /\ grid = Concat([y \in 1..Len(InputLines) |->
                                paddedRow(InputLines[y], size.X)])

\* C10: with tabWidth > 0 every tab of a line is replaced by
\* tabWidth - (c % tabWidth) spaces, c being the column at which the tab
\* lands in the expanded line, so that what follows a tab sits at a
\* multiple of tabWidth.
C10_TabsReachTabStops ==
    (li >= 1 /\ tabWidth > 0) =>
        \A e \in {expandTabs(InputLines[li], tabWidth)} :
            /\ e.status = "ok"
            /\ lines[li] = e.out
            /\ \A k \in 1..Len(e.cols) :
                    /\ e.cols[k][2] = tabWidth - (e.cols[k][1] % tabWidth)
                    /\ (e.cols[k][1] + e.cols[k][2]) % tabWidth = 0

\* the widest line, in runes
RECURSIVE widest(_)
widest(ls) == IF ls = <<>> THEN 0 ELSE Max(RuneCount(Head(ls)), widest(Tail(ls)))

\* C11: every input whose lines are all valid UTF-8, lines with multi-byte
\* characters included, is accepted (tabWidth > 0); the grid is as high as
\* the input has lines, as wide as the widest expanded line has runes, and
\* each row is the runes of its line padded with spaces to that width.
C11_ValidUtf8IsAccepted ==
    (/\ Terminal
     /\ tabWidth > 0
     /\ \A k \in 1..Len(InputLines) : Valid(InputLines[k]))
        => /\ pc = "done"
           /\ size.Y = Len(InputLines)
           /\ size.X = widest(lines)
           /\ grid = Concat([y \in 1..size.Y |-> paddedRow(lines[y], size.X)])

\* the hint the claim gives the k-th of n cells of an arrow line
lineHint(ch, k, n) ==
    IF ch = ">" /\ k = n THEN "EndMarker"
    ELSE IF ch = "<" /\ k = 1 THEN "StartMarker"
    ELSE IF ch = "x" THEN "Tick"
    ELSE IF ch = "o" THEN "Dot"
    ELSE "None"

\* o is an open path whose points are the cells of line, left to right,
\* on row y from column x0 on, each with the hint the claim gives it
isArrowPath(o, line, x0, y) ==
    /\ ~o.isText
    /\ ~o.isClosed
    /\ o.points = [k \in 1..Len(line) |->
                       [X |-> x0 + k - 1, Y |-> y, Hint |-> lineHint(line[k], k, Len(line))]]

\* C12: a horizontal line that ends in ">" and one that begins with "<" are
\* found once each, as one open path each: the last point of the first has
\* the hint EndMarker, the first point of the second StartMarker, a cell
\* "x" in a line Tick, a cell "o" Dot, and every other point has no hint.
C12_ArrowLinesOnceWithHints ==
    (pc = "done" /\ scene.kind = "arrows") =>
        /\ Len(objects) = 2
        /\ isArrowPath(objects[1], scene.l1 \o <<">">>, scene.lead, 0)
        /\ isArrowPath(objects[2], <<"<">> \o scene.l2, scene.lead, 2)

C12_Witness ==
    /\ pc = "done" /\ scene.kind = "arrows"
    /\ Len(objects) = 2
    /\ \E k \in 1..Len(objects[1].points) : objects[1].points[k].Hint = "Tick"
    /\ \E k \in 1..Len(objects[2].points) : objects[2].points[k].Hint = "Dot"
    /\ Last(objects[1].points).Hint = "EndMarker"
    /\ objects[2].points[1].Hint = "StartMarker"

\* C13: a closed box whose interior row is "[a]" followed by spaces up to
\* the right wall, with the definition "[a]: {json}" below the box, gives
\* the polygon with the tag "a", the reference text inside the box with the
\* tag "a", the definition text with the tag "a", and options["a"] with
\* the keys of the JSON.
C13_BoxReferenceTagsAll ==
    (Terminal /\ scene.kind = "tagbox") =>
        /\ pc = "done"
        /\ Len(objects) = 3
        /\ ~objects[1].isText /\ objects[1].isClosed
        /\ objects[1].tag = <<"a">>
        /\ objects[2].isText /\ objects[2].text = <<"[", "a", "]">>
        /\ objects[2].tag = <<"a">>
        /\ objects[3].isText /\ objects[3].points[1].Y = 4
        /\ objects[3].tag = <<"a">>
        /\ <<"a">> \in DOMAIN options
        /\ options[<<"a">>] = Unmarshal(scene.body).keys

\* C14: in the canvas NewCanvas returns, for every tag of options that has
\* the form "X,Y" (decimal integers), every object whose first corner is at
\* column X, row Y has that tag: also when several objects share the
\* corner, and when the object is a text.
C14_TargetTagOnEveryMatch ==
    pc = "done" =>
        \A t \in DOMAIN options :
            objTagMatch(t).ok =>
                \A i \in 1..Len(objects) :
                    cornerIs(objects[i], objTagMatch(t).X, objTagMatch(t).Y)
                        => objects[i].tag = t

\* whether the rectilinear circuit of the corners cs has p inside: the
\* number of its vertical edges left of p that span the row of p is odd
\* (exact for a p that is on no edge)
spansRow(c1, c2, p) ==
    /\ c1.X = c2.X /\ c1.X < p.X
    /\ (IF c1.Y < c2.Y THEN c1.Y ELSE c2.Y) <= p.Y
    /\ p.Y < Max(c1.Y, c2.Y)

insideCircuit(cs, p) ==
    Cardinality({k \in 1..Len(cs) : spansRow(cs[k], cs[succIdx(cs, k)], p)}) % 2 = 1

\* the closed polygons of the canvas that contain p
containing(p) == {i \in 1..Len(objects) : objects[i].isClosed /\ insideCircuit(objects[i].corners, p)}

\* C15: EnclosingObjects(p), p being a cell on no path, returns every
\* closed polygon of the canvas that contains p, none twice, and an outer
\* polygon before the polygons nested in it.
C15_EnclosingObjectsAllOutermostFirst ==
    (pc = "done" /\ query # NoPoint /\ at(query) = " ") =>
        /\ {enclosed[k] : k \in 1..Len(enclosed)} = containing(query)
        /\ \A k \in 1..Len(enclosed) : \A l \in 1..Len(enclosed) :
               k < l => /\ enclosed[k] # enclosed[l]
                        /\ insideCircuit(objects[enclosed[k]].corners,
                                         objects[enclosed[l]].corners[1])

\* C16: a label "[a]" inside a box nested in another box gives its tag to
\* the inner box, the innermost polygon that contains the label's first
\* cell, and leaves the tag of the outer box as it was (empty).
C16_LabelTagsInnermost ==
    (pc = "done" /\ scene.kind = "nestlabel") =>
        /\ \E i \in 1..Len(objects) : cornersXY(objects[i]) = scene.Vs[2]
        /\ \A i \in 1..Len(objects) :
               /\ cornersXY(objects[i]) = scene.Vs[2] => objects[i].tag = <<"a">>
               /\ cornersXY(objects[i]) = scene.Vs[1] => objects[i].tag = NoTag

\* whether q is one step from p: by 1 in exactly one axis, or by 1 in both
isStep(p, q) ==
    \/ /\ p.Y = q.Y /\ (q.X - p.X = 1 \/ p.X - q.X = 1)
    \/ /\ p.X = q.X /\ (q.Y - p.Y = 1 \/ p.Y - q.Y = 1)
    \/ /\ (q.X - p.X = 1 \/ p.X - q.X = 1) /\ (q.Y - p.Y = 1 \/ p.Y - q.Y = 1)

\* C17: in every object NewCanvas returns, each point is one step from the
\* point before it, orthogonal or diagonal; in a text object the step is
\* one cell to the right.
C17_ConsecutivePointsAdjacent ==
    pc = "done" =>
        \A i \in 1..Len(objects) : \A k \in 2..Len(objects[i].points) :
            IF objects[i].isText
            THEN /\ objects[i].points[k].X = objects[i].points[k - 1].X + 1
                 /\ objects[i].points[k].Y = objects[i].points[k - 1].Y
            ELSE isStep(objects[i].points[k - 1], objects[i].points[k])

C17_Witness ==
    /\ pc = "done"
    /\ \E i \in 1..Len(objects) :
           /\ ~objects[i].isText
           /\ Len(objects[i].points) >= 3
           /\ \E k \in 2..Len(objects[i].points) :
                  /\ objects[i].points[k].X # objects[i].points[k - 1].X
                  /\ objects[i].points[k].Y # objects[i].points[k - 1].Y
           /\ \E k \in 2..Len(objects[i].points) :
                  objects[i].points[k].Y = objects[i].points[k - 1].Y

\* twice the signed area of the triangle p, q, r, and its sign
turn(p, q, r) == (q.X - p.X) * (r.Y - p.Y) - (q.Y - p.Y) * (r.X - p.X)

sign(v) == IF v > 0 THEN 1 ELSE IF v < 0 THEN -1 ELSE 0

\* r lies on the segment from p to q
onEdge(p, q, r) ==
    /\ turn(p, q, r) = 0
    /\ (IF p.X < q.X THEN p.X ELSE q.X) <= r.X /\ r.X <= Max(p.X, q.X)
    /\ (IF p.Y < q.Y THEN p.Y ELSE q.Y) <= r.Y /\ r.Y <= Max(p.Y, q.Y)

\* the segments a-b and c-d have a point in common
edgesMeet(a, b, c, d) ==
    \/ /\ sign(turn(a, b, c)) # sign(turn(a, b, d))
       /\ sign(turn(c, d, a)) # sign(turn(c, d, b))
    \/ onEdge(a, b, c) \/ onEdge(a, b, d) \/ onEdge(c, d, a) \/ onEdge(c, d, b)

\* joining the corners cs in turn, and the last to the first, gives a
\* simple circuit: two edges that follow each other share their common
\* corner only, two others share nothing
isSimpleCircuit(cs) ==
    \A i \in 1..Len(cs) : \A j \in 1..Len(cs) :
        i < j =>
            IF j = i + 1
            THEN /\ ~onEdge(cs[i], cs[j], cs[succIdx(cs, j)])
                 /\ ~onEdge(cs[j], cs[succIdx(cs, j)], cs[i])
            ELSE IF i = 1 /\ j = Len(cs)
            THEN /\ ~onEdge(cs[j], cs[1], cs[2])
                 /\ ~onEdge(cs[1], cs[2], cs[j])
            ELSE ~edgesMeet(cs[i], cs[succIdx(cs, i)], cs[j], cs[succIdx(cs, j)])

\* C18: every closed object NewCanvas returns has at least 3 corners, no
\* corner twice, and its corners joined in turn (the last to the first)
\* form a simple closed circuit.
C18_ClosedCornersSimpleCircuit ==
    pc = "done" =>
        \A i \in 1..Len(objects) :
            objects[i].isClosed =>
                /\ Len(objects[i].corners) >= 3
                /\ \A k \in 1..Len(objects[i].corners) : \A l \in 1..Len(objects[i].corners) :
                       k # l => XY(objects[i].corners[k]) # XY(objects[i].corners[l])
                /\ isSimpleCircuit(objects[i].corners)

\* C19: in the canvas NewCanvas returns, a cell whose character is not a
\* corner ("+", ".", "'") is in the point list of at most one object; in
\* particular two open paths that branch at a "+" do not both hold the
\* cells of the segment that leads to the branch.
C19_NonCornerCellsOwnedOnce ==
    pc = "done" =>
        \A i \in 1..Len(objects) : \A j \in 1..Len(objects) :
            i # j => \A c \in cellsOf(objects[i]) \cap cellsOf(objects[j]) :
                         isCorner(grid[c + 1])

\* C20: in every object NewCanvas returns that is not a text, the first
\* point is the top-most and, among those, the left-most of its points.
C20_FirstPointTopLeftMost ==
    pc = "done" =>
        \A i \in 1..Len(objects) :
            ~objects[i].isText =>
                \A k \in 1..Len(objects[i].points) :
                    \/ objects[i].points[1].Y < objects[i].points[k].Y
                    \/ /\ objects[i].points[1].Y = objects[i].points[k].Y
                       /\ objects[i].points[1].X <= objects[i].points[k].X

\* the number of activations of scanPath that have not returned
scanDepth == Len(stack) + (IF call # <<>> THEN 1 ELSE 0)

\* C21: while the path pass runs, the depth of nested scanPath calls never
\* exceeds width x height of the grid.
C21_ScanDepthWithinCellCount == pc = "scan" => scanDepth <= size.X * size.Y

\* the direction of the step from p to the adjacent point q
dirOf(p, q) ==
    IF q.Y = p.Y THEN "H"
    ELSE IF q.X = p.X THEN "V"
    ELSE IF q.Y > p.Y THEN (IF q.X > p.X THEN "SE" ELSE "SW")
    ELSE (IF q.X > p.X THEN "NE" ELSE "NW")

\* the last point is one step from the first, the step back is horizontal,
\* vertical or north-east, and the walk ended in that direction
closesBack(pts) ==
    /\ isStep(Last(pts), pts[1])
    /\ dirOf(Last(pts), pts[1]) \in {"H", "V", "NE"}
    /\ dirOf(Last(pts), pts[1]) = dirOf(pts[Len(pts) - 1], Last(pts))

\* the indices of the points a corner list is made of: the first, each
\* point where the direction changes, and the last one of an open path
turningIndices(pts) ==
    {1} \cup {k \in 2..(Len(pts) - 1) : dirOf(pts[k - 1], pts[k]) # dirOf(pts[k], pts[k + 1])}
        \cup (IF closesBack(pts) THEN {} ELSE {Len(pts)})

\* the j-th smallest member of the set of indices K
nth(K, j) == CHOOSE k \in K : Cardinality({k2 \in K : k2 < k}) = j - 1

cornersAreTurns(o) ==
    IF Len(o.points) < 3
    THEN o.corners = o.points /\ ~o.isClosed
    ELSE /\ o.isClosed = closesBack(o.points)
         /\ Len(o.corners) = Cardinality(turningIndices(o.points))
         /\ \A j \in 1..Len(o.corners) :
                XY(o.corners[j]) = XY(o.points[nth(turningIndices(o.points), j)])

closeDetections == {k \in 1..Len(stack) : stack[k].next = <<>>}

\* the object the activation stack[k] sealed from its points
sealedBy(k) ==
    {j \in 1..Len(scanned) :
        pointsXY(scanned[j]) = [n \in 1..Len(stack[k].points) |-> XY(stack[k].points[n])]}

\* C23: the object scanPath seals when its close detection fires is
\* closed, and a complete rectangular outline, two rows high included, is
\* returned as a closed polygon.
C23_CloseDetectionSealsClosed ==
    /\ pc = "scan" =>
           \A k \in closeDetections : \A j \in sealedBy(k) : scanned[j].isClosed
    /\ (pc = "done" /\ scene.kind = "outline" /\ Len(scene.V) = 4) =>
           \E i \in 1..Len(objects) : objects[i].isClosed

\* the path-start cells from which no neighbour can be reached, whatever
\* has been visited
lonelyStarts == {i \in Cells : isPathStart(grid[i + 1]) /\ next({i}, PointAt(i)) = <<>>}

\* C24: a path-start cell with no reachable neighbour is in no path and is
\* unvisited when the path pass ends, so that only a text can hold it; an
\* object that is not a text has at least 2 points and a closed object at
\* least 3.
C24_SingletonsAreDiscarded ==
    /\ (pc = "texts" /\ pos = 0) => lonelyStarts \cap visited = {}
    /\ pc \in {"texts", "done"} =>
           \A i \in 1..Len(objects) :
               /\ ~objects[i].isText => /\ Len(objects[i].points) >= 2
                                        /\ cellsOf(objects[i]) \cap lonelyStarts = {}
               /\ objects[i].isClosed => Len(objects[i].points) >= 3

C24_Witness ==
    /\ pc = "done"
    /\ \E i \in 1..Len(objects) : objects[i].isClosed
    /\ \E i \in 1..Len(objects) :
           objects[i].isText /\ cellsOf(objects[i]) \cap lonelyStarts # {}

\* C25: NewCanvas never ends in one of the panics of an internal
\* inconsistency: next on a cell that is not visited, unvisit on a cell
\* that is not visited, pointsToCorners on points that are not contiguous.
C25_NoInternalPanic ==
    ~(pc = "panic" /\ err.kind \in {"next", "unvisit", "corners"})

C25_Witness ==
    /\ pc = "done"
    /\ lonelyStarts # {}
    /\ \E i \in 1..Len(objects) :
           /\ ~objects[i].isText
           /\ Len(objects[i].points) >= 3
           /\ \E k \in 2..Len(objects[i].points) :
                  dirOf(objects[i].points[k - 1], objects[i].points[k]) \notin {"H", "V"}

\* the point is one of the corners of the object
isCornerOf(o, p) == \E k \in 1..Len(o.corners) : XY(o.corners[k]) = XY(p)

\* C26: a point of an object that is not a text has the hint RoundedCorner
\* iff its character is "." or "'" and it is one of the corners of the
\* object; a "." or "'" the path passes straight through keeps the hint it
\* had; no point of a text has the hint Tick, Dot or RoundedCorner.
C26_RoundedCornerOnlyAtCorners ==
    pc = "done" =>
        \A i \in 1..Len(objects) : \A k \in 1..Len(objects[i].points) :
            IF objects[i].isText
            THEN objects[i].points[k].Hint \notin {"Tick", "Dot", "RoundedCorner"}
            ELSE /\ objects[i].points[k].Hint = "RoundedCorner"
                     <=> /\ isRoundedCorner(at(objects[i].points[k]))
                         /\ isCornerOf(objects[i], objects[i].points[k])
                 /\ (/\ isRoundedCorner(at(objects[i].points[k]))
                     /\ ~isCornerOf(objects[i], objects[i].points[k]))
                        => objects[i].points[k].Hint = "None"

C26_Witness ==
    /\ pc = "done"
    /\ \E i \in 1..Len(objects) :
           /\ ~objects[i].isText
           /\ \E k \in 1..Len(objects[i].points) :
                  objects[i].points[k].Hint = "RoundedCorner"
           /\ \E k \in 1..Len(objects[i].points) :
                  /\ isRoundedCorner(at(objects[i].points[k]))
                  /\ ~isCornerOf(objects[i], objects[i].points[k])

\* the text holds three spaces in a row
hasThreeSpaces(t) ==
    \E k \in 1..(Len(t) - 2) : isSpace(t[k]) /\ isSpace(t[k + 1]) /\ isSpace(t[k + 2])

\* C27: every text object has at least one point, begins with a character
\* that can start a text, does not end in white space and holds no three
\* white space characters in a row, whether it begins with "[" or not.
C27_TextRunsAreWellFormed ==
    pc = "done" =>
        \A i \in 1..Len(objects) :
            objects[i].isText =>
                /\ Len(objects[i].points) >= 1
                /\ isTextStart(objects[i].text[1])
                /\ ~isSpace(Last(objects[i].text))
                /\ ~hasThreeSpaces(objects[i].text)

\* the index of the first "]" of a text that begins with "[" and goes on
\* behind that "]", or 0
closingAt(t) ==
    IF t[1] = "[" /\ \E j \in 2..(Len(t) - 1) : t[j] = "]"
    THEN CHOOSE j \in 2..(Len(t) - 1) : t[j] = "]" /\ \A j2 \in 2..(j - 1) : t[j2] # "]"
    ELSE 0

\* C28: a text run whose closing "]" is followed by something else than
\* ":" is a plain text whatever follows, later "]" included: its tag is
\* empty, no object has the tag and options has no entry for it; a run
\* whose closing "]" is followed by ":" is a tag definition, also when its
\* JSON body holds a "]": the text has the tag and options has the entry.
C28_TagStateHolds ==
    pc = "done" =>
        \A i \in 1..Len(objects) :
            (objects[i].isText /\ closingAt(objects[i].text) # 0) =>
                \A t \in {SubSeq(objects[i].text, 2, closingAt(objects[i].text) - 1)} :
                    IF objects[i].text[closingAt(objects[i].text) + 1] # ":"
                    THEN /\ objects[i].tag = NoTag
                         /\ \A k \in 1..Len(objects) : objects[k].tag # t
                         /\ t \notin DOMAIN options
                    ELSE /\ objects[i].tag = t
                         /\ t \in DOMAIN options

\* the edge from a to b crosses the row of p left of p, in exact
\* arithmetic: the row is one of the rows the edge spans (its lower end
\* left out) and the point of the edge on that row has a smaller X
crossesLeftOf(a, b, p) ==
    /\ (IF a.Y < b.Y THEN a.Y ELSE b.Y) <= p.Y
    /\ p.Y < Max(a.Y, b.Y)
    /\ IF b.Y > a.Y
       THEN a.X * (b.Y - a.Y) + (p.Y - a.Y) * (b.X - a.X) < p.X * (b.Y - a.Y)
       ELSE a.X * (b.Y - a.Y) + (p.Y - a.Y) * (b.X - a.X) > p.X * (b.Y - a.Y)

\* p is inside the circuit of the corners cs by the even-odd rule
evenOdd(cs, p) ==
    Cardinality({k \in 1..Len(cs) : crossesLeftOf(cs[k], cs[succIdx(cs, k)], p)}) % 2 = 1

\* C29: for every closed polygon of the canvas and every cell that is not
\* one of its points, HasPoint tells whether the cell is inside the
\* polygon by the even-odd rule, diagonal edges included.
C29_HasPointIsEvenOdd ==
    pc = "done" =>
        \A i \in 1..Len(objects) :
            objects[i].isClosed =>
                \A c \in Cells \ cellsOf(objects[i]) :
                    HasPoint(objects[i], PointAt(c)) <=> evenOdd(objects[i].corners, PointAt(c))

\* the directions a path may take from or to a cell that holds c
axisOf(c) ==
    IF c = "/" THEN {"NE", "SW"}
    ELSE IF c = "\\" THEN {"NW", "SE"}
    ELSE {"H", "V", "NE", "SW", "NW", "SE"}

\* C30: a step of a path from or to a "/" cell goes north-east or
\* south-west, a step from or to a "\" cell north-west or south-east: a
\* diagonal character continues a path along its own axis only.
C30_DiagonalsKeepTheirAxis ==
    pc = "done" =>
        \A i \in 1..Len(objects) :
            ~objects[i].isText =>
                \A k \in 2..Len(objects[i].points) :
                    dirOf(objects[i].points[k - 1], objects[i].points[k])
                        \in axisOf(at(objects[i].points[k - 1]))
                             \cap axisOf(at(objects[i].points[k]))

====
